---- MODULE Spec2Model ----
(***************************************************************************)
(* Model of src/app.py: the monthly reservoir water balance                *)
(* simular_reservatorio and the part of main that calls it.                *)
(*                                                                         *)
(* Quantities are integers: volumes, inflows and demands in hm3, areas in  *)
(* km2, evaporation depths in mm (multiples of 1000 so that the two unit   *)
(* conversions of lines 40-43 are exact).  Floating-point rounding is not  *)
(* modelled.  A limit read from the constraints table is a pair            *)
(* <<kind, n>>: a number, +infinity (the default of line 17) or a text     *)
(* cell, which the table may hold because the code never converts it.      *)
(***************************************************************************)
EXTENDS Integers, Sequences, FiniteSets, TLC

VARIABLES
    pc,              \* control point of the call
    volume_inicial,  \* argument: initial volume
    curva_av,        \* argument: number of rows of the volume/area table
    restricoes,      \* argument: the constraints table (or none)
    n_meses,         \* len(afluencias)
    afluencias,      \* \
    demandas,        \*  > the series, as far as the loop has read them
    evaporacao_mm,   \* /
    coef_polinomio,  \* np.polyfit's result, highest degree first
    volume_max, volume_min_oper, volume_morto,
    aviso,           \* st.warning was called (line 28)
    volumes, evap_hm3, retiradas, alertas,
    t,               \* loop index
    resultado,       \* <<>> until the function returns, then <<bundle>>
    sessao           \* st.session_state.resultados[nome], <<>> while unset

vars == <<pc, volume_inicial, curva_av, restricoes, n_meses, afluencias,
          demandas, evaporacao_mm, coef_polinomio, volume_max,
          volume_min_oper, volume_morto, aviso, volumes, evap_hm3,
          retiradas, alertas, t, resultado, sessao>>

----------------------------------------------------------------------------
(* Bounds of the model *)

MaxMonths == 2
MaxVolumeInicial == 2

(* Input values *)

TamanhosCurva == {0, 3, 4}
ValoresAfluencia == {0, 2}
ValoresDemanda == {0, 3}
ValoresEvaporacao == {0, 1000}

\* candidate results of the degree-3 fit: area = v, area = 1 - v^2,
\* area = v^3 + 1
Polinomios == {<<0, 0, 1, 0>>, <<0, -1, 0, 1>>, <<1, 0, 0, 1>>}
SemAjuste == <<0, 0, 0, 0>>

Num(n) == <<"num", n>>
Inf == <<"inf", 0>>
Texto == <<"str", 0>>
Ausente == <<"absent", 0>>

Chaves == {"Volume Maximo", "Volume Minimo Operacional", "Volume Morto"}

Linhas(vmax, vmin, vmorto) ==
    [k \in Chaves |-> IF k = "Volume Maximo" THEN vmax
                      ELSE IF k = "Volume Minimo Operacional" THEN vmin
                      ELSE vmorto]

TabelasNumericas ==
    { Linhas(a, b, c) : a \in {Ausente, Num(-1), Num(1)},
                        b \in {Ausente, Num(2)},
                        c \in {Ausente, Num(1)} }

TabelasComTexto ==
    { Linhas(Texto, Ausente, Ausente), Linhas(Num(1), Texto, Ausente),
      Linhas(Ausente, Num(2), Texto) }

\* restricoes: None, a frame without the two named columns, or a frame
\* with them
Restricoes ==
    {[forma |-> "ausente", linhas |-> Linhas(Ausente, Ausente, Ausente)],
     [forma |-> "malformada", linhas |-> Linhas(Ausente, Ausente, Ausente)]}
    \cup {[forma |-> "tabela", linhas |-> l] : l \in TabelasNumericas \cup TabelasComTexto}

----------------------------------------------------------------------------
(* Arithmetic of the loop body *)

KM2_PARA_M2 == 1000000
MM_POR_M == 1000
M3_POR_HM3 == 1000000

Max2(a, b) == IF a >= b THEN a ELSE b
Min2(a, b) == IF b < a THEN b ELSE a

\* np.poly1d(coef)(v)
AreaFunc(coef, v) == coef[1] * v * v * v + coef[2] * v * v + coef[3] * v + coef[4]

\* lines 40-43 without the clamp of line 41
EvapVolumeSemPiso(coef, v_ant, mm) ==
    LET a == AreaFunc(coef, v_ant) * KM2_PARA_M2
        evap_m == mm \div MM_POR_M
    IN (a * evap_m) \div M3_POR_HM3

\* lines 40-43
EvapVolume(coef, v_ant, mm) ==
    LET a0 == AreaFunc(coef, v_ant) * KM2_PARA_M2
        a == Max2(a0, 0)
        evap_m == mm \div MM_POR_M
    IN (a * evap_m) \div M3_POR_HM3

\* line 46 without the max(0, ...) around the available volume
RetiradaSemPiso(demanda, v_ant, afluencia, evap_volume) ==
    Min2(demanda, v_ant + afluencia - evap_volume)

\* line 46 without the min(demanda, ...): all that is available is released
RetiradaSemDemanda(demanda, v_ant, afluencia, evap_volume) ==
    Max2(0, v_ant + afluencia - evap_volume)

\* line 46 with the month's inflow left out of the available volume
RetiradaSemAfluencia(demanda, v_ant, afluencia, evap_volume) ==
    Min2(demanda, Max2(0, v_ant - evap_volume))

\* line 46
Retirada(demanda, v_ant, afluencia, evap_volume) ==
    Min2(demanda, Max2(0, v_ant + afluencia - evap_volume))

\* lines 47-49 without the max(v_atual, 0) of line 48
VAtualSemPiso(v_ant, afluencia, evap_volume, retirada, vmax) ==
    LET v0 == v_ant + afluencia - evap_volume - retirada
    IN IF vmax[1] = "num" THEN Min2(v0, vmax[2]) ELSE v0

\* lines 47-49, for a volume_max that is a number or +infinity
VAtual(v_ant, afluencia, evap_volume, retirada, vmax) ==
    LET v0 == v_ant + afluencia - evap_volume - retirada
        v1 == Max2(v0, 0)
    IN IF vmax[1] = "num" THEN Min2(v1, vmax[2]) ELSE v1

\* v < limite for a numeric or infinite limite
Menor(v, limite) == IF limite[1] = "num" THEN v < limite[2] ELSE limite[1] = "inf"

\* lines 51-54 with the second test written as an elif
AlertasExclusivos(als, mes, v_atual, vmin, vmorto) ==
    IF v_atual < vmin[2]
    THEN Append(als, [mes |-> mes, tipo |-> "min_oper", v |-> v_atual])
    ELSE IF v_atual < vmorto[2]
         THEN Append(als, [mes |-> mes, tipo |-> "morto", v |-> v_atual])
         ELSE als

\* lines 51-54
Alertas(als, mes, v_atual, vmin, vmorto) ==
    LET a1 == IF Menor(v_atual, vmin)
              THEN Append(als, [mes |-> mes, tipo |-> "min_oper", v |-> v_atual])
              ELSE als
    IN IF Menor(v_atual, vmorto)
       THEN Append(a1, [mes |-> mes, tipo |-> "morto", v |-> v_atual])
       ELSE a1

\* dict.get(chave, padrao), lines 24-26
Get(linhas, chave, padrao) == IF linhas[chave] = Ausente THEN padrao ELSE linhas[chave]

Zeros(n) == [i \in 1..n |-> 0]

\* lines 60-65 returning the whole volumes array
BundleSemCorte(vols, rets, evs, als) ==
    [volumes |-> vols, retiradas |-> rets, evaporacao |-> evs, alertas |-> als]

\* lines 60-65: volumes[1:] drops the initial volume
Bundle(vols, rets, evs, als) ==
    [volumes |-> SubSeq(vols, 2, Len(vols)), retiradas |-> rets,
     evaporacao |-> evs, alertas |-> als]

----------------------------------------------------------------------------
Init ==
    /\ pc = "fit"
    /\ volume_inicial \in 0..MaxVolumeInicial
    /\ curva_av \in TamanhosCurva
    /\ restricoes \in Restricoes
    /\ n_meses \in 0..MaxMonths
    /\ afluencias = <<>>
    /\ demandas = <<>>
    /\ evaporacao_mm = <<>>
    /\ coef_polinomio = SemAjuste
    /\ volume_max = Inf
    /\ volume_min_oper = Num(0)
    /\ volume_morto = Num(0)
    /\ aviso = FALSE
    /\ volumes = <<>>
    /\ evap_hm3 = <<>>
    /\ retiradas = <<>>
    /\ alertas = <<>>
    /\ t = 0
    /\ resultado = <<>>
    /\ sessao = <<>>

\* lines 12-15: np.polyfit returns a cubic for any non-empty table (with
\* fewer than 4 rows it only warns that the fit is poorly conditioned)
Fit ==
    /\ pc = "fit"
    /\ curva_av > 0
    /\ \E c \in Polinomios : coef_polinomio' = c
    /\ pc' = "restricoes"
    /\ UNCHANGED <<volume_inicial, curva_av, restricoes, n_meses, afluencias,
                   demandas, evaporacao_mm, volume_max, volume_min_oper,
                   volume_morto, aviso, volumes, evap_hm3, retiradas, alertas,
                   t, resultado, sessao>>

\* line 14 on an empty table: np.polyfit raises, nothing catches it
FitRaises ==
    /\ pc = "fit"
    /\ curva_av = 0
    /\ pc' = "raised"
    /\ UNCHANGED <<volume_inicial, curva_av, restricoes, n_meses, afluencias,
                   demandas, evaporacao_mm, coef_polinomio, volume_max,
                   volume_min_oper, volume_morto, aviso, volumes, evap_hm3,
                   retiradas, alertas, t, resultado, sessao>>

\* lines 17-28
LerRestricoes ==
    /\ pc = "restricoes"
    /\ IF restricoes.forma = "tabela"
       THEN /\ volume_max' = Get(restricoes.linhas, "Volume Maximo", Inf)
            /\ volume_min_oper' = Get(restricoes.linhas, "Volume Minimo Operacional", Num(0))
            /\ volume_morto' = Get(restricoes.linhas, "Volume Morto", Num(0))
            /\ aviso' = FALSE
       ELSE /\ volume_max' = Inf
            /\ volume_min_oper' = Num(0)
            /\ volume_morto' = Num(0)
            /\ aviso' = (restricoes.forma = "malformada")
    /\ pc' = "alocar"
    /\ UNCHANGED <<volume_inicial, curva_av, restricoes, n_meses, afluencias,
                   demandas, evaporacao_mm, coef_polinomio, volumes, evap_hm3,
                   retiradas, alertas, t, resultado, sessao>>

\* lines 30-36
Alocar ==
    /\ pc = "alocar"
    /\ volumes' = [Zeros(n_meses + 1) EXCEPT ![1] = volume_inicial]
    /\ evap_hm3' = Zeros(n_meses)
    /\ retiradas' = Zeros(n_meses)
    /\ alertas' = <<>>
    /\ t' = 0
    /\ pc' = "loop"
    /\ UNCHANGED <<volume_inicial, curva_av, restricoes, n_meses, afluencias,
                   demandas, evaporacao_mm, coef_polinomio, volume_max,
                   volume_min_oper, volume_morto, aviso, resultado, sessao>>

TemTexto == Texto \in {volume_max, volume_min_oper, volume_morto}

\* lines 38-58, one iteration
Passo ==
    /\ pc = "loop"
    /\ t < n_meses
    /\ ~TemTexto
    /\ \E afl \in ValoresAfluencia, dem \in ValoresDemanda, mm \in ValoresEvaporacao :
         LET v_ant == volumes[t + 1]
             evap_volume == EvapVolume(coef_polinomio, v_ant, mm)
             retirada == Retirada(dem, v_ant, afl, evap_volume)
             v_atual == VAtual(v_ant, afl, evap_volume, retirada, volume_max)
         IN /\ afluencias' = Append(afluencias, afl)
            /\ demandas' = Append(demandas, dem)
            /\ evaporacao_mm' = Append(evaporacao_mm, mm)
            /\ alertas' = Alertas(alertas, t + 1, v_atual, volume_min_oper, volume_morto)
            /\ evap_hm3' = [evap_hm3 EXCEPT ![t + 1] = evap_volume]
            /\ volumes' = [volumes EXCEPT ![t + 2] = v_atual]
            /\ retiradas' = [retiradas EXCEPT ![t + 1] = retirada]
    /\ t' = t + 1
    /\ UNCHANGED <<pc, volume_inicial, curva_av, restricoes, n_meses,
                   coef_polinomio, volume_max, volume_min_oper, volume_morto,
                   aviso, resultado, sessao>>

\* lines 49, 51, 53 with a text limit: comparing a number with a string
\* raises TypeError in the first iteration, outside the try of lines 22-28
PassoRaises ==
    /\ pc = "loop"
    /\ t < n_meses
    /\ TemTexto
    /\ pc' = "raised"
    /\ UNCHANGED <<volume_inicial, curva_av, restricoes, n_meses, afluencias,
                   demandas, evaporacao_mm, coef_polinomio, volume_max,
                   volume_min_oper, volume_morto, aviso, volumes, evap_hm3,
                   retiradas, alertas, t, resultado, sessao>>

\* lines 60-65
Retornar ==
    /\ pc = "loop"
    /\ t = n_meses
    /\ resultado' = <<Bundle(volumes, retiradas, evap_hm3, alertas)>>
    /\ pc' = "returned"
    /\ UNCHANGED <<volume_inicial, curva_av, restricoes, n_meses, afluencias,
                   demandas, evaporacao_mm, coef_polinomio, volume_max,
                   volume_min_oper, volume_morto, aviso, volumes, evap_hm3,
                   retiradas, alertas, t, sessao>>

\* main, lines 230-239: the result is stored in the session state
MainArmazena ==
    /\ pc = "returned"
    /\ sessao' = resultado
    /\ pc' = "concluido"
    /\ UNCHANGED <<volume_inicial, curva_av, restricoes, n_meses, afluencias,
                   demandas, evaporacao_mm, coef_polinomio, volume_max,
                   volume_min_oper, volume_morto, aviso, volumes, evap_hm3,
                   retiradas, alertas, t, resultado>>

Next ==
    \/ Fit
    \/ FitRaises
    \/ LerRestricoes
    \/ Alocar
    \/ Passo
    \/ PassoRaises
    \/ Retornar
    \/ MainArmazena

Spec == Init /\ [][Next]_vars

----------------------------------------------------------------------------
(* Properties.  Month i (1-based) has been simulated when i <= t; its      *)
(* start volume is volumes[i] and its post-step volume volumes[i + 1].     *)

Simulados == 1..t
Finito(limite) == limite[1] = "num"
Bruto(i) == volumes[i] + afluencias[i] - evap_hm3[i] - retiradas[i]
Disponivel(i) == Max2(0, volumes[i] + afluencias[i] - evap_hm3[i])
Terminou == pc \in {"returned", "concluido"}

C2_Release ==
    \A i \in Simulados :
        /\ retiradas[i] = Min2(demandas[i], Disponivel(i))
        /\ 0 <= retiradas[i]
        /\ retiradas[i] <= demandas[i]

\* a month with a partial release (a deficit, but not an empty release)
C2_Witness ==
    \E i \in Simulados : 0 < retiradas[i] /\ retiradas[i] < demandas[i]

\* C3: the returned volume, release and evaporation sequences have length
\* N = n_meses and the alert list has between 0 and 2N entries; with N = 0
\* everything returned is empty and no error is raised (the only error a
\* run with N = 0 can end in is the fit of an empty sample table).
C3_Lengths ==
    /\ Terminou =>
        /\ Len(resultado) = 1
        /\ Len(resultado[1].volumes) = n_meses
        /\ Len(resultado[1].retiradas) = n_meses
        /\ Len(resultado[1].evaporacao) = n_meses
        /\ Len(resultado[1].alertas) <= 2 * n_meses
    /\ (pc = "raised" /\ n_meses = 0) => curva_av = 0

\* a two-month run that returned with the full four alerts
C3_Witness ==
    /\ pc = "returned"
    /\ n_meses = 2
    /\ Len(resultado[1].alertas) = 4

NoOp(i) == afluencias[i] = 0 /\ evaporacao_mm[i] = 0 /\ demandas[i] = 0

CapNegativo == Finito(volume_max) /\ volume_max[2] < 0

\* C4 (as stated): in a month with zero inflow, evaporation rate and
\* demand the recorded volume equals the start volume, whatever the start
\* volume and the constraints are.  Runs with a negative MaximumVolume are
\* left aside here, so that a violation does not rest on the order of the
\* two clamps of lines 48-49.
C4_Original ==
    \A i \in Simulados : (NoOp(i) /\ ~CapNegativo) => volumes[i + 1] = volumes[i]

\* C4 (amended): in such a month the recorded volume equals the start
\* volume clamped to [0, MaximumVolume]; it equals the start volume in
\* every month after the first, and in the first month whenever the
\* initial volume lies within [0, MaximumVolume].
C4_NoOp ==
    \A i \in Simulados :
        NoOp(i) =>
            /\ volumes[i + 1] = VAtual(volumes[i], 0, 0, 0, volume_max)
            /\ i >= 2 => volumes[i + 1] = volumes[i]
            /\ (0 <= volumes[i] /\ (Finito(volume_max) => volumes[i] <= volume_max[2]))
                   => volumes[i + 1] = volumes[i]

\* a no-op second month that keeps a positive volume
C4_Witness ==
    /\ t >= 2
    /\ NoOp(2)
    /\ volumes[2] > 0
    /\ volumes[3] = volumes[2]

\* C5: every recorded evaporation loss is >= 0, and it is 0 when the
\* fitted polynomial is negative at the start-of-step volume.
C5_Evaporation ==
    \A i \in Simulados :
        /\ evap_hm3[i] >= 0
        /\ AreaFunc(coef_polinomio, volumes[i]) < 0 => evap_hm3[i] = 0

\* a month with a positive evaporation rate and a negative fitted area
C5_Witness ==
    \E i \in Simulados :
        /\ AreaFunc(coef_polinomio, volumes[i]) < 0
        /\ evaporacao_mm[i] > 0

NAlertas(i, tipo) ==
    Cardinality({k \in 1..Len(alertas) : alertas[k].mes = i /\ alertas[k].tipo = tipo})

\* C6: for every simulated month i exactly one below-minimum alert
\* labelled i (carrying the post-step volume) exists if that volume is
\* below the minimum operational volume and none otherwise; the same,
\* independently, for the dead volume; every alert belongs to a simulated
\* month, and a run that returns has simulated all n_meses months.
C6_Alerts ==
    /\ \A i \in Simulados :
        /\ NAlertas(i, "min_oper") = IF Menor(volumes[i + 1], volume_min_oper) THEN 1 ELSE 0
        /\ NAlertas(i, "morto") = IF Menor(volumes[i + 1], volume_morto) THEN 1 ELSE 0
    /\ \A k \in 1..Len(alertas) :
        /\ alertas[k].mes \in Simulados
        /\ alertas[k].v = volumes[alertas[k].mes + 1]
    /\ Terminou => (t = n_meses /\ resultado[1].alertas = alertas)

\* a returned two-month run whose first month fired both alerts and whose
\* second month fired only the below-minimum one
C6_Witness ==
    /\ pc = "returned"
    /\ n_meses = 2
    /\ NAlertas(1, "min_oper") = 1
    /\ NAlertas(1, "morto") = 1
    /\ NAlertas(2, "min_oper") = 1
    /\ NAlertas(2, "morto") = 0

Padrao(chave) == IF chave = "Volume Maximo" THEN Inf ELSE Num(0)
Lido(chave) ==
    IF chave = "Volume Maximo" THEN volume_max
    ELSE IF chave = "Volume Minimo Operacional" THEN volume_min_oper
    ELSE volume_morto
Ilegivel(chave) ==
    \/ restricoes.forma # "tabela"
    \/ restricoes.linhas[chave] = Ausente

\* C7 (as stated): a missing, incomplete or malformed constraints table
\* never aborts the run (the only error a run can end in is the fit of an
\* empty sample table), every limit the table does not give has its
\* default, and a warning is given only for a malformed table.
C7_Original ==
    /\ pc = "raised" => curva_av = 0
    /\ pc \notin {"fit", "restricoes"} =>
           \A k \in Chaves : Ilegivel(k) => Lido(k) = Padrao(k)
    /\ aviso => restricoes.forma = "malformada"

\* C8 (as stated): with fewer than 4 sample points the fit fails, so the
\* run never gets past the fit and returns nothing.
C8_Original ==
    curva_av < 4 =>
        /\ pc \in {"fit", "raised"}
        /\ resultado = <<>>
        /\ sessao = <<>>

\* C9 (as stated): every recorded post-step volume equals
\* max(0, min(v + inflow - evaporation - release, MaximumVolume)).
C9_Original ==
    \A i \in Simulados :
        volumes[i + 1] =
            Max2(0, IF Finito(volume_max) THEN Min2(Bruto(i), volume_max[2]) ELSE Bruto(i))

\* C10: with a non-negative (or infinite) MaximumVolume, a month whose
\* release is below its demand ends with volume 0.
C10_Deficit ==
    \A i \in Simulados :
        (retiradas[i] < demandas[i] /\ ~(Finito(volume_max) /\ volume_max[2] < 0))
            => volumes[i + 1] = 0

\* a deficit month that started with water in storage
C10_Witness ==
    \E i \in Simulados :
        /\ retiradas[i] < demandas[i]
        /\ volumes[i] > 0
        /\ ~(Finito(volume_max) /\ volume_max[2] < 0)

====
